---- MODULE Spec2Model ----
(***************************************************************************)
(* The motion-detection engine of TV-Webcam-Link: the React hook           *)
(* useMotionDetection (src/unnamed/part_001, lines 25-230).                *)
(*                                                                         *)
(* The engine is a single-threaded event-driven program.  Its state is the *)
(* hook's refs and its one piece of React state; its events are the calls  *)
(* of setup() and cleanup() made by the enabled-effect, the resolution or  *)
(* rejection of the two promises setup() awaits, the animation-frame       *)
(* callback detectMotionLoop, the silence timer and the effect that copies *)
(* the props into refs.  Every event runs to completion, so every action   *)
(* below is one event.                                                     *)
(*                                                                         *)
(* Optional values (a ref that is null or undefined) are sets with at most *)
(* one element.  Animation-frame and timer ids are opaque handles: an id   *)
(* that is neither pending nor held by a ref is indistinguishable from a   *)
(* new one, so the smallest such id is handed out.                         *)
(***************************************************************************)
EXTENDS Integers, Sequences, FiniteSets, TLC

----------------------------------------------------------------------------
(* Bounds of the model *)

\* setup() is called at most this many times in a behaviour of Spec
MaxSetups == 2
\* and at most this many times in a behaviour of SpecTimed
MaxSetupsTimed == 1
\* the clock stops here (milliseconds)
MaxTime == 2000
\* the clock advances by at most this much at once (milliseconds)
Quantum == 300
\* a flat frame of SpecEstimator is at most this wide (pixels)
MaxWidth == 5

(* Program constants *)

\* "checking every 4th pixel"
resolution == 4
\* setTimeout(..., 1000)
SilenceMs == 1000

\* the calls of setup(), in the order they are made
Procs == 1..(IF MaxSetups > MaxSetupsTimed THEN MaxSetups ELSE MaxSetupsTimed)

----------------------------------------------------------------------------
(* Frames: ImageData of the canvas, RGBA bytes, row-major *)

NoFrame == [w |-> 0, h |-> 0, data |-> << >>]

\* a w x h frame whose pixel k (0-based) is grey(k), alpha 255
RECURSIVE Pixels(_, _)
Pixels(n, grey) ==
    IF n = 0 THEN << >>
    ELSE Pixels(n - 1, grey) \o <<grey[n - 1], grey[n - 1], grey[n - 1], 255>>

MkFrame(w, h, grey) == [w |-> w, h |-> h, data |-> Pixels(w * h, grey)]

Flat(n, v) == [k \in 0..(n - 1) |-> v]

\* the frames the camera can deliver in the model
Frames ==
    { MkFrame(1, 1, Flat(1, 0)),
      MkFrame(1, 1, Flat(1, 10)),
      MkFrame(1, 1, Flat(1, 60)),
      MkFrame(3, 2, Flat(6, 0)) }

\* the sensitivities the props can carry in the model
Sensitivities == {1, 100}

----------------------------------------------------------------------------
(* The change estimator: lines 108-128 and 133-137 *)

RECURSIVE Pow2(_)
Pow2(n) == IF n = 0 THEN 1 ELSE 2 * Pow2(n - 1)

\* floor(log2(n)), n >= 1
RECURSIVE FloorLog2(_)
FloorLog2(n) == IF n <= 1 THEN 0 ELSE 1 + FloorLog2(n \div 2)

Abs(x) == IF x < 0 THEN 0 - x ELSE x

(* 99 * pixelDiffThreshold, line 115, for an integer sensitivity in 1..100: *)
(* the double the code computes is the exact rational at every such value. *)
Threshold99Rising(s) == 495 + 45 * (s - 1)

Threshold99(s) == 4950 - 45 * (s - 1)

(* The rounding error of the double (a / 3), a the sum of three bytes, in  *)
(* units of 2^-54 / 3.  a / 3 is exact when 3 divides a; otherwise its     *)
(* binary expansion ends in 0101... or 1010... and round-to-nearest goes   *)
(* up or down by a third of an ulp, depending on the parity of the number  *)
(* of fraction bits that 53 bits of mantissa leave.                        *)
AvgError(a) ==
    LET q == a \div 3
        r == a % 3
        \* 4 * 2^e, with e the exponent of a / 3
        ulp4 == IF q >= 1 THEN 4 * Pow2(FloorLog2(q)) ELSE r
        \* the parity of 52 - e
        odd == IF q >= 1 THEN FloorLog2(q) % 2 = 1 ELSE r = 2
        up == IF r = 1 THEN odd ELSE ~odd
    IN  IF r = 0 THEN 0 ELSE IF up THEN ulp4 ELSE 0 - ulp4

(* Math.abs(avg1 - avg2) > pixelDiffThreshold, lines 122-125, for the RGB  *)
(* sums a and b of the two pixels.  Away from the boundary the doubles     *)
(* order as the rationals do.  On the boundary (|a - b| / 3 equal to the   *)
(* threshold, an integer T) the difference of the two rounded averages is  *)
(* rounded to the nearest double, which exceeds T exactly when the two     *)
(* rounding errors add up to more than half an ulp of T.                   *)
DiffExceeds(a, b, s) ==
    IF 99 * Abs(a - b) # 3 * Threshold99(s)
    THEN 99 * Abs(a - b) > 3 * Threshold99(s)
    ELSE LET T == Threshold99(s) \div 99
             delta == IF a > b THEN AvgError(a) - AvgError(b)
                               ELSE AvgError(b) - AvgError(a)
         IN  delta > 6 * Pow2(FloorLog2(T))

\* lastData[i] + lastData[i + 1] + lastData[i + 2], i a 0-based index
Sum3(data, i) == data[i + 1] + data[i + 2] + data[i + 3]

(* One iteration of the loop of lines 120-128.  Reading lastData past its  *)
(* end yields undefined, the average is NaN and no comparison with NaN is  *)
(* true.                                                                   *)
PixelChanged(lastData, currentData, i, s) ==
    /\ i + 3 <= Len(lastData)
    /\ DiffExceeds(Sum3(lastData, i), Sum3(currentData, i), s)

\* the values i takes in the loop of line 120: 0, 16, 32, ... below the
\* length of currentData
SampledPositions(currentData) ==
    {4 * resolution * k : k \in 0..((Len(currentData) - 1) \div (4 * resolution))}

\* changedPixels after the loop: one is added at every position that changed
ChangedPixels(lastF, curF, s) ==
    Cardinality({i \in SampledPositions(curF.data) :
                    PixelChanged(lastF.data, curF.data, i, s)})

(* changedPixels > motionPixelThreshold, lines 134-137: the threshold is   *)
(* ((width * height) / resolution) * 0.001.                                *)
MotionPresent(changed, w, h) == 1000 * resolution * changed > w * h

----------------------------------------------------------------------------
(* The state of the hook *)

VARIABLES
    stream,             \* useState: the stream handed to the view, {} or {p}
    videoRef,           \* {} or {p}: the video element created by setup p
    canvasRef,          \* whether the ref holds a canvas
    streamRef,          \* {} or {p}: the MediaStream obtained by setup p
    requestRef,         \* {} (undefined) or {id}
    lastImageDataRef,   \* NoFrame (null) or a frame
    motionTimeoutRef,   \* {} (null) or {id}
    isDetectingMotionRef,
    sensitivityRef,
    sensitivity,        \* the prop
    enabled,            \* the prop; FALSE until the first setup()
    nSetups,            \* setup() calls made so far
    pc,                 \* pc[p]: where the p-th call of setup() is
    video,              \* video[p]: the video element of setup p
    track,              \* track[p]: the tracks of the stream of setup p
    rafPending,         \* ids of the animation-frame callbacks not yet run
    timers,             \* the pending setTimeout callbacks, [id, at]
    now,                \* the clock, ms: see Advance
    lastMotionAt,       \* the clock at the latest motion-present tick
    acquired,           \* a stream was acquired and no frame read since
    isMotionActive,     \* the consumer's useState (App), set by the callbacks
    calls,              \* the callbacks the latest event invoked, in order
    last                \* the latest event

\* the state and refs of the hook and the resources they stand for
engine == <<stream, videoRef, canvasRef, streamRef, requestRef,
            lastImageDataRef, motionTimeoutRef, isDetectingMotionRef,
            rafPending, timers, track, video>>

vars == <<stream, videoRef, canvasRef, streamRef, requestRef,
          lastImageDataRef, motionTimeoutRef, isDetectingMotionRef,
          sensitivityRef, sensitivity, enabled, nSetups, pc, video, track,
          rafPending, timers, now, lastMotionAt, acquired, isMotionActive,
          calls, last>>

(* What an event records of itself.  A tick records the return it left by  *)
(* (path), the frame it read (frame), whether that frame equals the one it *)
(* was compared with (same), changedPixels after the loop (changed) and    *)
(* the outcome of line 137 (motion); the silence timer records the clock.  *)
Event(op, p) ==
    [op |-> op, path |-> "", proc |-> p, motion |-> FALSE, at |-> 0,
     lastMotion |-> 0, changed |-> 0, frame |-> NoFrame, same |-> FALSE]

Min(S) == CHOOSE x \in S : \A y \in S : x <= y

\* a handle that nothing holds
Fresh(used) == Min({i \in 1..(Cardinality(used) + 1) : i \notin used})

Init ==
    /\ stream = {}
    /\ videoRef = {}
    /\ canvasRef = FALSE
    /\ streamRef = {}
    /\ requestRef = {}
    /\ lastImageDataRef = NoFrame
    /\ motionTimeoutRef = {}
    /\ isDetectingMotionRef = FALSE
    /\ sensitivity \in Sensitivities
    /\ sensitivityRef = sensitivity
    /\ enabled = FALSE
    /\ nSetups = 0
    /\ pc = [p \in Procs |-> "new"]
    /\ video = [p \in Procs |-> "none"]
    /\ track = [p \in Procs |-> "none"]
    /\ rafPending = {}
    /\ timers = {}
    /\ now = 0
    /\ lastMotionAt = 0
    /\ acquired = FALSE
    /\ isMotionActive = FALSE
    /\ calls = << >>
    /\ last = Event("init", 0)

----------------------------------------------------------------------------
(* cleanup(), lines 158-180 *)

(* Setting srcObject to null runs the media element's load algorithm: the  *)
(* element is paused and a pending play() promise is rejected with an      *)
(* AbortError.  The last three conjuncts keep the books of the model: the  *)
(* clock stands at 0 while no timer is pending, and the session that was   *)
(* acquired is gone.                                                       *)
cleanupKeepsTimer ==
    /\ requestRef' = {}
    /\ rafPending' = rafPending \ requestRef
    /\ motionTimeoutRef' = {}
    /\ timers' = timers
    /\ track' = [p \in Procs |-> IF p \in streamRef THEN "stopped" ELSE track[p]]
    /\ streamRef' = {}
    /\ video' = [p \in Procs |-> IF p \in videoRef THEN "unloaded" ELSE video[p]]
    /\ videoRef' = {}
    /\ stream' = {}
    /\ lastImageDataRef' = NoFrame
    /\ isDetectingMotionRef' = FALSE
    /\ canvasRef' = FALSE
    /\ now' = IF timers' = {} THEN 0 ELSE now
    /\ lastMotionAt' = IF timers' = {} THEN 0 ELSE lastMotionAt
    /\ acquired' = FALSE

cleanup ==
    /\ requestRef' = {}
    /\ rafPending' = rafPending \ requestRef
    /\ motionTimeoutRef' = {}
    /\ timers' = {t \in timers : t.id \notin motionTimeoutRef}
    /\ track' = [p \in Procs |-> IF p \in streamRef THEN "stopped" ELSE track[p]]
    /\ streamRef' = {}
    /\ video' = [p \in Procs |-> IF p \in videoRef THEN "unloaded" ELSE video[p]]
    /\ videoRef' = {}
    /\ stream' = {}
    /\ lastImageDataRef' = NoFrame
    /\ isDetectingMotionRef' = FALSE
    /\ canvasRef' = FALSE
    /\ now' = IF timers' = {} THEN 0 ELSE now
    /\ lastMotionAt' = IF timers' = {} THEN 0 ELSE lastMotionAt
    /\ acquired' = FALSE

(* The enabled-effect, lines 220-227, when enabled becomes (or, the effect *)
(* being re-run, is again) true: the previous run's cleanup and then       *)
(* setup(), which begins with cleanup() and runs up to its first await.    *)
setup(limit) ==
    /\ nSetups < limit
    /\ cleanup
    /\ nSetups' = nSetups + 1
    /\ pc' = [pc EXCEPT ![nSetups + 1] = "gum"]
    /\ enabled' = TRUE
    /\ calls' = << >>
    /\ last' = Event("enable", nSetups + 1)
    /\ UNCHANGED <<sensitivityRef, sensitivity, isMotionActive>>

(* The enabled-effect when enabled becomes false (or the hook unmounts):   *)
(* cleanup().                                                              *)
Disable ==
    /\ cleanup
    /\ enabled' = FALSE
    /\ calls' = << >>
    /\ last' = Event("disable", 0)
    /\ UNCHANGED <<sensitivityRef, sensitivity, nSetups, pc, isMotionActive>>

----------------------------------------------------------------------------
(* setup() after its awaits, lines 185-217 *)

\* the errors a promise of setup() is rejected with, besides the AbortError
\* of an interrupted play()
GumErrors == {"NotAllowedError", "AbortError"}

(* getUserMedia resolved: lines 190-202, up to the await of play().        *)
GumResolved(p) ==
    /\ pc[p] = "gum"
    /\ stream' = {p}
    /\ streamRef' = {p}
    /\ track' = [track EXCEPT ![p] = "live"]
    /\ video' = [video EXCEPT ![p] = "starting"]
    /\ videoRef' = {p}
    /\ canvasRef' = TRUE
    /\ pc' = [pc EXCEPT ![p] = "play"]
    /\ acquired' = TRUE
    /\ calls' = << >>
    /\ last' = Event("gumResolved", p)
    /\ UNCHANGED <<requestRef, lastImageDataRef, motionTimeoutRef,
                   isDetectingMotionRef, sensitivityRef, sensitivity, enabled,
                   nSetups, rafPending, timers, now, lastMotionAt,
                   isMotionActive>>

(* The catch clause, lines 204-217: an AbortError is dropped, any other    *)
(* error goes to onError.  Nothing else is done.                           *)
CaughtReportsAbort(p, err) ==
    /\ pc' = [pc EXCEPT ![p] = "done"]
    /\ calls' = <<"onError">>
    /\ last' = [Event("caught", p) EXCEPT !.path = err]

Caught(p, err) ==
    /\ pc' = [pc EXCEPT ![p] = "done"]
    /\ calls' = IF err = "AbortError" THEN << >> ELSE <<"onError">>
    /\ last' = [Event("caught", p) EXCEPT !.path = err]

(* getUserMedia rejected (permission denied, no device, device unusable).  *)
GumRejected(p, err) ==
    /\ pc[p] = "gum"
    /\ Caught(p, err)
    /\ UNCHANGED <<stream, videoRef, canvasRef, streamRef, requestRef,
                   lastImageDataRef, motionTimeoutRef, isDetectingMotionRef,
                   sensitivityRef, sensitivity, enabled, nSetups, video, track,
                   rafPending, timers, now, lastMotionAt, acquired,
                   isMotionActive>>

(* play() resolved: line 203 starts the sampling loop.                     *)
PlayResolved(p) ==
    /\ pc[p] = "play"
    /\ video[p] = "starting"
    /\ LET id == Fresh(rafPending)
       IN  /\ requestRef' = {id}
           /\ rafPending' = rafPending \cup {id}
    /\ video' = [video EXCEPT ![p] = "playing"]
    /\ pc' = [pc EXCEPT ![p] = "done"]
    /\ calls' = << >>
    /\ last' = Event("playResolved", p)
    /\ UNCHANGED <<stream, videoRef, canvasRef, streamRef, lastImageDataRef,
                   motionTimeoutRef, isDetectingMotionRef, sensitivityRef,
                   sensitivity, enabled, nSetups, track, timers, now, lastMotionAt,
                   acquired, isMotionActive>>

(* play() rejected: with an AbortError when the element was unloaded by    *)
(* cleanup() meanwhile, otherwise because the browser refused to play      *)
(* (NotAllowedError), which leaves the element paused.                     *)
PlayRejected(p) ==
    /\ pc[p] = "play"
    /\ IF video[p] = "unloaded"
       THEN /\ Caught(p, "AbortError")
            /\ UNCHANGED video
       ELSE /\ Caught(p, "NotAllowedError")
            /\ video' = [video EXCEPT ![p] = "blocked"]
    /\ UNCHANGED <<stream, videoRef, canvasRef, streamRef, requestRef,
                   lastImageDataRef, motionTimeoutRef, isDetectingMotionRef,
                   sensitivityRef, sensitivity, enabled, nSetups, track,
                   rafPending, timers, now, lastMotionAt, acquired,
                   isMotionActive>>

----------------------------------------------------------------------------
(* detectMotionLoop, lines 68-156: one animation-frame callback *)

\* what the callback finds when it looks at the video element
VideoInputs ==
    {[kind |-> k, frame |-> NoFrame] : k \in {"notReady", "noCtx", "zeroSize"}}
    \cup {[kind |-> "frame", frame |-> f] : f \in Frames}

\* neither paused nor ended, and enough data: play() has been called on the
\* element and was not refused, and the element still has its stream
CanBeReady(p) == video[p] \in {"starting", "playing"}

\* the return the callback leaves by
TickPath(vin) ==
    IF videoRef = {} \/ ~canvasRef THEN "noElements"
    ELSE IF vin.kind = "notReady" \/ \E p \in videoRef : ~CanBeReady(p)
         THEN "notReady"
    ELSE IF vin.kind = "noCtx" THEN "noCtx"
    ELSE IF vin.kind = "zeroSize" THEN "zeroSize"
    ELSE IF lastImageDataRef = NoFrame THEN "first"
    ELSE "compare"

(* Lines 137-152: the decision.  A motion-present tick invokes             *)
(* onMotionStart when none was being detected, clears the timer the ref    *)
(* holds and sets a new one.  The consumer's onMotionStart and onMotionEnd *)
(* (App, handleMotionStart and handleMotionEnd) set and reset its          *)
(* isMotionActive.                                                         *)
DecideAlwaysStart(motion) ==
    IF motion
    THEN LET kept == {t \in timers : t.id \notin motionTimeoutRef}
             id == Fresh({t.id : t \in kept} \cup motionTimeoutRef)
             t0 == IF timers = {} THEN 0 ELSE now
         IN  /\ isDetectingMotionRef' = TRUE
             /\ calls' = <<"onMotionStart">>
             /\ isMotionActive' = TRUE
             /\ timers' = kept \cup {[id |-> id, at |-> t0 + SilenceMs]}
             /\ motionTimeoutRef' = {id}
             /\ now' = t0
             /\ lastMotionAt' = t0
    ELSE /\ calls' = << >>
         /\ UNCHANGED <<isDetectingMotionRef, timers, motionTimeoutRef,
                        now, lastMotionAt, isMotionActive>>

DecideKeepTimer(motion) ==
    IF motion
    THEN LET id == Fresh({t.id : t \in timers} \cup motionTimeoutRef)
             t0 == IF timers = {} THEN 0 ELSE now
         IN  /\ isDetectingMotionRef' = TRUE
             /\ calls' = IF isDetectingMotionRef THEN << >>
                         ELSE <<"onMotionStart">>
             /\ isMotionActive' = (isDetectingMotionRef => isMotionActive)
             /\ timers' = IF isDetectingMotionRef THEN timers
                          ELSE {[id |-> id, at |-> t0 + SilenceMs]}
             /\ motionTimeoutRef' = IF isDetectingMotionRef
                                    THEN motionTimeoutRef ELSE {id}
             /\ now' = t0
             /\ lastMotionAt' = t0
    ELSE /\ calls' = << >>
         /\ UNCHANGED <<isDetectingMotionRef, timers, motionTimeoutRef,
                        now, lastMotionAt, isMotionActive>>

DecideResetsTimer(motion) ==
    LET kept == {t \in timers : t.id \notin motionTimeoutRef}
        id == Fresh({t.id : t \in kept} \cup motionTimeoutRef)
        t0 == IF timers = {} THEN 0 ELSE now
    IN  /\ isDetectingMotionRef' = (isDetectingMotionRef \/ motion)
        /\ calls' = IF motion /\ ~isDetectingMotionRef
                    THEN <<"onMotionStart">> ELSE << >>
        /\ isMotionActive' = (isMotionActive \/ (motion /\ ~isDetectingMotionRef))
        /\ timers' = kept \cup {[id |-> id, at |-> t0 + SilenceMs]}
        /\ motionTimeoutRef' = {id}
        /\ now' = t0
        /\ lastMotionAt' = IF motion THEN t0 ELSE lastMotionAt

Decide(motion) ==
    IF motion
    THEN LET kept == {t \in timers : t.id \notin motionTimeoutRef}
             id == Fresh({t.id : t \in kept} \cup motionTimeoutRef)
             t0 == IF timers = {} THEN 0 ELSE now
         IN  /\ isDetectingMotionRef' = TRUE
             /\ calls' = IF isDetectingMotionRef THEN << >>
                         ELSE <<"onMotionStart">>
             /\ isMotionActive' = (isDetectingMotionRef => isMotionActive)
             /\ timers' = kept \cup {[id |-> id, at |-> t0 + SilenceMs]}
             /\ motionTimeoutRef' = {id}
             /\ now' = t0
             /\ lastMotionAt' = t0
    ELSE /\ calls' = << >>
         /\ UNCHANGED <<isDetectingMotionRef, timers, motionTimeoutRef,
                        now, lastMotionAt, isMotionActive>>

detectMotionLoopKeepsBaseline(id, vin) ==
    /\ id \in rafPending
    /\ LET path == TickPath(vin)
           cur == vin.frame
           s == sensitivityRef
           changed == IF path = "compare"
                      THEN ChangedPixels(lastImageDataRef, cur, s) ELSE 0
           motion == path = "compare" /\ MotionPresent(changed, cur.w, cur.h)
           next == Fresh(rafPending \ {id})
       IN  /\ lastImageDataRef' = IF path = "first" \/ motion THEN cur
                                  ELSE lastImageDataRef
           /\ acquired' = (acquired /\ path \notin {"first", "compare"})
           /\ Decide(motion)
           /\ requestRef' = {next}
           /\ rafPending' = (rafPending \ {id}) \cup {next}
           /\ last' = [Event("tick", 0) EXCEPT
                           !.path = path, !.motion = motion,
                           !.changed = changed, !.frame = cur,
                           !.same = (path = "compare" /\ cur = lastImageDataRef)]
    /\ UNCHANGED <<stream, videoRef, canvasRef, streamRef, sensitivityRef,
                   sensitivity, enabled, nSetups, pc, video, track>>

detectMotionLoopDropsTick(id, vin) ==
    /\ id \in rafPending
    /\ LET path == TickPath(vin)
           cur == vin.frame
           s == sensitivityRef
           changed == IF path = "compare"
                      THEN ChangedPixels(lastImageDataRef, cur, s) ELSE 0
           motion == path = "compare" /\ MotionPresent(changed, cur.w, cur.h)
           next == Fresh(rafPending \ {id})
       IN  /\ lastImageDataRef' = IF path \in {"first", "compare"} THEN cur
                                  ELSE lastImageDataRef
           /\ acquired' = (acquired /\ path \notin {"first", "compare"})
           /\ Decide(motion)
           /\ requestRef' = IF path = "zeroSize" THEN requestRef ELSE {next}
           /\ rafPending' = IF path = "zeroSize" THEN rafPending \ {id}
                            ELSE (rafPending \ {id}) \cup {next}
           /\ last' = [Event("tick", 0) EXCEPT
                           !.path = path, !.motion = motion,
                           !.changed = changed, !.frame = cur,
                           !.same = (path = "compare" /\ cur = lastImageDataRef)]
    /\ UNCHANGED <<stream, videoRef, canvasRef, streamRef, sensitivityRef,
                   sensitivity, enabled, nSetups, pc, video, track>>

detectMotionLoop(id, vin) ==
    /\ id \in rafPending
    /\ LET path == TickPath(vin)
           cur == vin.frame
           s == sensitivityRef
           changed == IF path = "compare"
                      THEN ChangedPixels(lastImageDataRef, cur, s) ELSE 0
           motion == path = "compare" /\ MotionPresent(changed, cur.w, cur.h)
           next == Fresh(rafPending \ {id})
       IN  /\ lastImageDataRef' = IF path \in {"first", "compare"} THEN cur
                                  ELSE lastImageDataRef
           /\ acquired' = (acquired /\ path \notin {"first", "compare"})
           /\ Decide(motion)
           /\ requestRef' = {next}
           /\ rafPending' = (rafPending \ {id}) \cup {next}
           /\ last' = [Event("tick", 0) EXCEPT
                           !.path = path, !.motion = motion,
                           !.changed = changed, !.frame = cur,
                           !.same = (path = "compare" /\ cur = lastImageDataRef)]
    /\ UNCHANGED <<stream, videoRef, canvasRef, streamRef, sensitivityRef,
                   sensitivity, enabled, nSetups, pc, video, track>>

(* The silence timer, lines 148-151.                                       *)
TimerCallback(t) ==
    /\ t \in timers
    /\ timers' = timers \ {t}
    /\ isDetectingMotionRef' = FALSE
    /\ calls' = <<"onMotionEnd">>
    /\ isMotionActive' = FALSE
    /\ last' = [Event("timer", 0) EXCEPT !.at = now, !.lastMotion = lastMotionAt]
    /\ now' = IF timers' = {} THEN 0 ELSE now
    /\ lastMotionAt' = IF timers' = {} THEN 0 ELSE lastMotionAt
    /\ UNCHANGED <<stream, videoRef, canvasRef, streamRef, requestRef,
                   lastImageDataRef, motionTimeoutRef, sensitivityRef,
                   sensitivity, enabled, nSetups, pc, video, track,
                   rafPending, acquired>>

\* the timer fires after a delay the model leaves open
SilenceTimer(t) == TimerCallback(t)

\* the timer fires when the clock says it is due
SilenceTimerDue(t) == t.at <= now /\ TimerCallback(t)

(* The props effect, lines 61-66, after a render with a new sensitivity.   *)
(* The enabled-effect does not depend on sensitivity and is not re-run.    *)
SetSensitivityStale(s) ==
    /\ s # sensitivity
    /\ sensitivity' = s
    /\ calls' = << >>
    /\ last' = Event("sensitivity", 0)
    /\ UNCHANGED <<stream, videoRef, canvasRef, streamRef, requestRef,
                   lastImageDataRef, motionTimeoutRef, isDetectingMotionRef,
                   enabled, nSetups, pc, video, track, rafPending, timers,
                   now, lastMotionAt, acquired, sensitivityRef,
                   isMotionActive>>

SetSensitivity(s) ==
    /\ s # sensitivity
    /\ sensitivity' = s
    /\ sensitivityRef' = s
    /\ calls' = << >>
    /\ last' = Event("sensitivity", 0)
    /\ UNCHANGED <<stream, videoRef, canvasRef, streamRef, requestRef,
                   lastImageDataRef, motionTimeoutRef, isDetectingMotionRef,
                   enabled, nSetups, pc, video, track, rafPending, timers,
                   now, lastMotionAt, acquired, isMotionActive>>

(* Time passes: up to the next timer that is due, and no further.  The     *)
(* program reads no clock: the only time it can tell is the time that      *)
(* passes while a silence timer is pending.  So the clock is a stopwatch:  *)
(* it runs while a timer is pending, stands at 0 otherwise, and t = 0 is   *)
(* the motion-present tick that set the first of the pending timers.       *)
Due == {t.at : t \in timers}

Advance ==
    /\ timers # {}
    /\ now < MaxTime
    /\ \A at \in Due : now < at
    /\ now' = Min({now + Quantum, MaxTime} \cup Due)
    /\ calls' = << >>
    /\ last' = Event("time", 0)
    /\ UNCHANGED <<stream, videoRef, canvasRef, streamRef, requestRef,
                   lastImageDataRef, motionTimeoutRef, isDetectingMotionRef,
                   sensitivityRef, sensitivity, enabled, nSetups, pc, video,
                   track, rafPending, timers, lastMotionAt, acquired,
                   isMotionActive>>

\* the events other than those of the lifecycle and of time
Engine ==
    \/ \E p \in Procs : GumResolved(p)
    \/ \E p \in Procs, err \in GumErrors : GumRejected(p, err)
    \/ \E p \in Procs : PlayResolved(p)
    \/ \E p \in Procs : PlayRejected(p)
    \/ \E id \in rafPending, vin \in VideoInputs : detectMotionLoop(id, vin)
    \/ \E s \in Sensitivities : SetSensitivity(s)

(* Spec leaves the delays open: a pending silence timer may fire at any    *)
(* moment, and the clock stands still.                                     *)
Next ==
    \/ setup(MaxSetups)
    \/ Disable
    \/ Engine
    \/ \E t \in timers : SilenceTimer(t)

Spec == Init /\ [][Next]_vars

(* SpecTimed has the clock: a silence timer fires when it is due, and time *)
(* does not pass a timer that is due.                                      *)
NextTimed ==
    \/ setup(MaxSetupsTimed)
    \/ Disable
    \/ Engine
    \/ \E t \in timers : SilenceTimerDue(t)
    \/ Advance

SpecTimed == Init /\ [][NextTimed]_vars

(* SpecLive has the scheduling of the browser: a callback handed to        *)
(* requestAnimationFrame and not cancelled is run.  Delays are left open   *)
(* as in Spec.                                                             *)
Tick == \E id \in rafPending, vin \in VideoInputs : detectMotionLoop(id, vin)

NextLive ==
    \/ setup(MaxSetupsTimed)
    \/ Disable
    \/ Engine
    \/ \E t \in timers : SilenceTimer(t)

SpecLive == Init /\ [][NextLive]_vars /\ WF_vars(Tick)

----------------------------------------------------------------------------
(* SpecEstimator: the sampling loop of one running session, over more      *)
(* frames and every sensitivity.  The props do not change: each behaviour  *)
(* has one sensitivity.                                                    *)

\* the sensitivities the props can carry: "1-100", line 32
EstSensitivities == 1..100

\* a 1 x 1 frame whose one pixel is (r, g, b), alpha 255
Rgb1(r, g, b) == [w |-> 1, h |-> 1, data |-> <<r, g, b, 255>>]

\* a 20 x 20 frame, 400 pixels of which the loop samples 100: the first
\* pixel is grey v0, the others are grey v, alpha 255
RECURSIVE Repeat(_, _)
Repeat(px, n) ==
    IF n = 0 THEN << >>
    ELSE IF n % 2 = 1 THEN px \o Repeat(px, n - 1)
    ELSE LET half == Repeat(px, n \div 2) IN half \o half

Wide(v0, v) ==
    [w |-> 20, h |-> 20,
     data |-> <<v0, v0, v0, 255>> \o Repeat(<<v, v, v, 255>>, 399)]

(* The frames the camera can deliver in SpecEstimator: the flat frames one *)
(* pixel high of every width up to MaxWidth, dark and bright (the loop     *)
(* walks the bytes and the decision takes width * height: neither tells    *)
(* rows from columns), and four one-pixel frames whose colours are not     *)
(* grey.                                                                   *)
EstFrames ==
    { MkFrame(w, 1, Flat(w, v)) : w \in 1..MaxWidth, v \in {0, 60} }
    \cup { Rgb1(14, 15, 15), Rgb1(64, 65, 65), Rgb1(4, 4, 5), Rgb1(9, 9, 10) }

EstimatorInputs ==
    VideoInputs \cup {[kind |-> "frame", frame |-> f] : f \in EstFrames}

(* Two larger frames: a dark 20 x 20 frame, and the same frame but for one *)
(* sampled pixel that is 10 brighter (1% of the sampled positions).  The   *)
(* camera delivers them in the behaviours whose sensitivity is one of      *)
(* ScenarioSensitivities: the least, the greatest, and the two between     *)
(* which a difference of 10 begins to count.                               *)
WideFrames == { Wide(0, 0), Wide(10, 0) }

ScenarioSensitivities == {1, 89, 90, 100}

WideInputs == {[kind |-> "frame", frame |-> f] : f \in WideFrames}

(* The state setup() leaves when getUserMedia and play() have resolved     *)
(* (lines 190-203) and nothing else has happened since the hook was        *)
(* mounted, for any sensitivity the props can carry.                       *)
InitEstimator ==
    /\ stream = {1}
    /\ videoRef = {1}
    /\ canvasRef = TRUE
    /\ streamRef = {1}
    /\ requestRef = {1}
    /\ lastImageDataRef = NoFrame
    /\ motionTimeoutRef = {}
    /\ isDetectingMotionRef = FALSE
    /\ sensitivity \in EstSensitivities
    /\ sensitivityRef = sensitivity
    /\ enabled = TRUE
    /\ nSetups = 1
    /\ pc = [p \in Procs |-> IF p = 1 THEN "done" ELSE "new"]
    /\ video = [p \in Procs |-> IF p = 1 THEN "playing" ELSE "none"]
    /\ track = [p \in Procs |-> IF p = 1 THEN "live" ELSE "none"]
    /\ rafPending = {1}
    /\ timers = {}
    /\ now = 0
    /\ lastMotionAt = 0
    /\ acquired = TRUE
    /\ isMotionActive = FALSE
    /\ calls = << >>
    /\ last = Event("playResolved", 1)

NextEstimator ==
    \/ \E id \in rafPending, vin \in EstimatorInputs : detectMotionLoop(id, vin)
    \/ \E id \in rafPending, vin \in WideInputs :
          /\ sensitivityRef \in ScenarioSensitivities
          /\ detectMotionLoop(id, vin)
    \/ \E t \in timers : SilenceTimer(t)

SpecEstimator == InitEstimator /\ [][NextEstimator]_vars

----------------------------------------------------------------------------
(* The vocabulary of the claims *)

\* the callbacks the latest event invoked
Invoked == {calls[i] : i \in 1..Len(calls)}

MotionCallbacks == {"onMotionStart", "onMotionEnd"}

\* the acquired streams whose tracks have not been stopped
Live == {p \in Procs : track[p] = "live"}

\* the calls of setup() that are waiting for a promise
InFlight == {p \in Procs : pc[p] \in {"gum", "play"}}

\* nothing is held: no session, no exposed stream, no pending tick, no
\* pending timer, no previous frame, Idle
Released ==
    /\ streamRef = {}
    /\ Live = {}
    /\ stream = {}
    /\ rafPending = {}
    /\ timers = {}
    /\ lastImageDataRef = NoFrame
    /\ ~isDetectingMotionRef

----------------------------------------------------------------------------
(* The claims *)

(* C1: once disable() has returned, no event invokes onMotionStart or      *)
(* onMotionEnd until the next enable(), whatever was in flight when        *)
(* disable() ran: a tick, a silence timer, or an enable() still waiting    *)
(* for the camera or for play().                                           *)
C1_NoMotionCallbackWhileDisabled ==
    ~enabled => Invoked \cap MotionCallbacks = {}

(* C2: at most one acquired stream has tracks that are not stopped, and    *)
(* it is the current session's: every earlier stream was stopped before    *)
(* or when a newer one became current.                                     *)
C2_AtMostOneLiveStream ==
    /\ Cardinality(Live) <= 1
    /\ Live \subseteq streamRef

(* C3: at most one sampling tick is pending, so one display refresh runs   *)
(* the sampling pipeline at most once.                                     *)
C3_AtMostOnePendingTick == Cardinality(rafPending) <= 1

(* C4: whenever the engine is disabled and no enable() is still in         *)
(* progress, no stream with live tracks exists, no tick is pending and no  *)
(* stream is exposed.                                                      *)
C4_LeakFreeWhenDisabled ==
    (~enabled /\ InFlight = {}) =>
        (Live = {} /\ rafPending = {} /\ stream = {})

(* C5: a tick invokes onMotionStart exactly when it is classified          *)
(* motion-present while Idle, once, and that tick enters Active; nothing   *)
(* else enters Active; a motion-present tick while Active invokes          *)
(* nothing; a no-motion tick while Idle invokes nothing and leaves the     *)
(* motion state as it was.                                                 *)
C5_StartExactlyOnEntry ==
    [][ /\ ("onMotionStart" \in Invoked') <=>
              (last'.op = "tick" /\ last'.motion /\ ~isDetectingMotionRef)
        /\ ("onMotionStart" \in Invoked') =>
              (calls' = <<"onMotionStart">> /\ isDetectingMotionRef')
        /\ (~isDetectingMotionRef /\ isDetectingMotionRef') =>
              calls' = <<"onMotionStart">>
        /\ (last'.op = "tick" /\ last'.motion /\ isDetectingMotionRef) =>
              calls' = << >>
        /\ (last'.op = "tick" /\ ~last'.motion /\ ~isDetectingMotionRef) =>
              /\ calls' = << >>
              /\ UNCHANGED <<isDetectingMotionRef, timers, motionTimeoutRef>>
      ]_vars

\* a tick classified motion-present in Idle has invoked onMotionStart, once
C5_Witness ==
    /\ last.op = "tick"
    /\ last.motion
    /\ calls = <<"onMotionStart">>
    /\ isDetectingMotionRef

(* C6: while Active exactly one silence timer is pending, due one silence  *)
(* period (1000 ms) after the latest motion-present tick, and time does    *)
(* not pass it; onMotionEnd is invoked only by that timer, once, at that   *)
(* instant, and ends the Active period; an Active period ends in no other  *)
(* way but by a teardown (cleanup()); every motion-present tick leaves     *)
(* one pending timer, due 1000 ms after that tick.  So with                *)
(* motion-present ticks at 0 and 900 ms and none after, onMotionEnd comes  *)
(* at 1900 ms and not at 1000 ms.                                          *)
C6_EndOneSilenceAfterLastMotion ==
    /\ [](isDetectingMotionRef =>
            /\ Cardinality(timers) = 1
            /\ \A t \in timers : t.at = lastMotionAt + SilenceMs /\ now <= t.at)
    /\ [][ /\ ("onMotionEnd" \in Invoked') =>
                 /\ last'.op = "timer"
                 /\ calls' = <<"onMotionEnd">>
                 /\ isDetectingMotionRef /\ ~isDetectingMotionRef'
                 /\ last'.at = last'.lastMotion + SilenceMs
           /\ (isDetectingMotionRef /\ ~isDetectingMotionRef') =>
                 \/ calls' = <<"onMotionEnd">>
                 \/ last'.op \in {"enable", "disable"}
           /\ (last'.op = "tick" /\ last'.motion) =>
                 /\ Cardinality(timers') = 1
                 /\ \A t \in timers' : t.at = now' + SilenceMs
         ]_vars

\* motion at 0 and last at 900 ms: onMotionEnd at 1900 ms
C6_Witness ==
    /\ last.op = "timer"
    /\ calls = <<"onMotionEnd">>
    /\ last.lastMotion = 900
    /\ last.at = 1900
    /\ ~isDetectingMotionRef

(* C7: after disable() nothing is held (no camera session, no exposed      *)
(* stream, no pending tick, no pending silence timer, no previous frame,   *)
(* Idle), and a second disable() changes nothing and invokes no callback.  *)
C7_DisableCompleteAndIdempotent ==
    /\ [](last.op = "disable" => Released)
    /\ [][ (last.op = "disable" /\ last'.op = "disable") =>
               (UNCHANGED engine /\ calls' = << >>) ]_vars

(* C8: when a call of setup() fails with an error that is not the          *)
(* AbortError of a superseded start, whether the camera request or         *)
(* play() failed, onError is invoked once and the engine is left           *)
(* disabled: that call has ended, no stream has live tracks, no tick and   *)
(* no silence timer is pending.                                            *)
C8_FailureReportedAndReleased ==
    (last.op = "caught" /\ last.path # "AbortError") =>
        /\ calls = <<"onError">>
        /\ pc[last.proc] = "done"
        /\ Live = {}
        /\ rafPending = {}
        /\ timers = {}

(* C9: the first tick that reads a frame after an acquisition compares     *)
(* nothing: it stores the frame and invokes no callback.                   *)
C9_FirstTickStoresOnly ==
    [][ (acquired /\ last'.op = "tick" /\ last'.path \in {"first", "compare"}) =>
            /\ last'.path = "first"
            /\ calls' = << >>
            /\ lastImageDataRef' # NoFrame
      ]_vars

(* C10: a change of sensitivity leaves the session, the tick loop, the     *)
(* previous frame, the motion state and the silence timer as they were,    *)
(* and every tick that compares classifies with the threshold of the       *)
(* sensitivity the props carry at that moment.                             *)
C10_SensitivityReadLive ==
    [][ /\ last'.op = "sensitivity" =>
              /\ UNCHANGED <<engine, pc, nSetups, enabled>>
              /\ calls' = << >>
        /\ (last'.op = "tick" /\ last'.path = "compare") =>
              last'.motion =
                  MotionPresent(ChangedPixels(lastImageDataRef,
                                              lastImageDataRef', sensitivity),
                                lastImageDataRef'.w, lastImageDataRef'.h)
      ]_vars

\* sensitivity was changed while a session runs, a frame is retained, the
\* state is Active and a silence timer is pending
C10_Witness ==
    /\ last.op = "sensitivity"
    /\ enabled
    /\ streamRef # {}
    /\ rafPending # {}
    /\ lastImageDataRef # NoFrame
    /\ isDetectingMotionRef
    /\ timers # {}

----------------------------------------------------------------------------
(* The claims about the change estimator and the loop *)

\* the luminance difference |a / 3 - b / 3| of two pixels with RGB sums a
\* and b is greater than 50 - ((s - 1) / 99) * 45, as rationals
ExceedsExactly(a, b, s) == 99 * Abs(a - b) > 3 * (4950 - 45 * (s - 1))

\* the sampled positions of a comparing tick at which both frames have a pixel
Comparable(lastF, curF) ==
    {i \in SampledPositions(curF.data) : i + 3 <= Len(lastF.data)}

(* C11: for every integer sensitivity s in 1..100 the per-pixel threshold  *)
(* a tick uses is 50 - ((s - 1) / 99) * 45 exactly (99 * threshold =       *)
(* 4950 - 45 * (s - 1); 50 at s = 1, 5 at s = 100), and a sampled pixel    *)
(* counts as changed only when its luminance difference is strictly        *)
(* greater than that threshold: every position the tick counts exceeds     *)
(* the threshold, and changedPixels is no more than the number of          *)
(* positions that do.                                                      *)
C11_ThresholdExactAndStrict ==
    [][ (last'.op = "tick" /\ last'.path = "compare") =>
            LET lastF == lastImageDataRef
                curF == last'.frame
                s == sensitivityRef
            IN  /\ 99 * 50 = Threshold99(1)
                /\ 99 * 5 = Threshold99(100)
                /\ \A i \in Comparable(lastF, curF) :
                       PixelChanged(lastF.data, curF.data, i, s) =>
                          ExceedsExactly(Sum3(lastF.data, i),
                                         Sum3(curF.data, i), s)
                /\ last'.changed <=
                       Cardinality({i \in Comparable(lastF, curF) :
                                       ExceedsExactly(Sum3(lastF.data, i),
                                                      Sum3(curF.data, i), s)})
      ]_vars

\* a tick read the frame curF while the retained frame lastF has other
\* dimensions
Mismatch(lastF, curF) ==
    /\ lastF # NoFrame
    /\ curF # NoFrame
    /\ (lastF.w # curF.w \/ lastF.h # curF.h)

(* C12: a tick whose frame has other dimensions than the retained previous *)
(* frame compares nothing: it counts no changed pixel from the two         *)
(* buffers, invokes no callback and leaves the motion state and the        *)
(* silence timer as they were; it replaces the previous frame and          *)
(* reschedules.                                                            *)
C12_NoCompareOnDimensionMismatch ==
    [][ (last'.op = "tick" /\ Mismatch(lastImageDataRef, last'.frame)) =>
            /\ last'.path # "compare"
            /\ last'.changed = 0
            /\ ~last'.motion
            /\ calls' = << >>
            /\ UNCHANGED <<isDetectingMotionRef, timers, motionTimeoutRef>>
            /\ lastImageDataRef' = last'.frame
            /\ requestRef' # {} /\ requestRef' \subseteq rafPending'
      ]_vars

\* the returns of lines 70-92: nothing was read from the video
NotReadyPaths == {"noElements", "notReady", "noCtx", "zeroSize"}

AllDiffer(lastF, curF, s) ==
    /\ lastF # NoFrame
    /\ lastF.w = curF.w /\ lastF.h = curF.h
    /\ \A i \in SampledPositions(curF.data) :
           ExceedsExactly(Sum3(lastF.data, i), Sum3(curF.data, i), s)

(* C14: for every frame size and every sensitivity, when the previous and  *)
(* the current frame differ by more than the threshold at every sampled    *)
(* position, changedPixels is the number of sampled positions, that number *)
(* is the sampledCount = totalPixels / 4 of the decision (so 4 *           *)
(* changedPixels = width * height), the tick is motion-present, and in     *)
(* Idle onMotionStart is invoked exactly once.                             *)
C14_AllChangedIsFullSampledCount ==
    [][ ( /\ last'.op = "tick" /\ last'.path = "compare"
          /\ AllDiffer(lastImageDataRef, last'.frame, sensitivityRef) ) =>
            /\ last'.changed = Cardinality(SampledPositions(last'.frame.data))
            /\ resolution * last'.changed = last'.frame.w * last'.frame.h
            /\ last'.motion
            /\ ~isDetectingMotionRef => calls' = <<"onMotionStart">>
      ]_vars

(* C15: for every sensitivity and every frame size, a tick that compares   *)
(* two identical frames counts no changed pixel and is classified          *)
(* no-motion: it invokes no callback and leaves the motion state, the      *)
(* pending silence timer (neither cancelled nor restarted) and the         *)
(* consumer as they were, in Idle and in Active.                           *)
C15_IdenticalFramesNoMotion ==
    [][ ( /\ last'.op = "tick" /\ last'.path = "compare"
          /\ last'.frame = lastImageDataRef ) =>
            /\ last'.changed = 0
            /\ ~last'.motion
            /\ calls' = << >>
            /\ UNCHANGED <<isDetectingMotionRef, timers, motionTimeoutRef,
                           isMotionActive>>
      ]_vars

\* in Active, a tick has compared two identical frames: still Active, the
\* timer still pending
C15_Witness ==
    /\ last.op = "tick"
    /\ last.same
    /\ last.changed = 0
    /\ isDetectingMotionRef
    /\ Cardinality(timers) = 1

----------------------------------------------------------------------------
(* The claims about the lifecycle and the motion state *)

(* C16: when a call of setup() whose play() was pending is interrupted by  *)
(* a later teardown (play() is rejected with an AbortError), onError is    *)
(* not invoked, the call ends and no other is made in its place, nothing   *)
(* of the engine changes (it starts no sampling loop), and its stream has  *)
(* no live track, then and ever after: the video element a teardown has    *)
(* unloaded belongs to a stream that teardown has stopped.                 *)
C16_SupersededStartIsSilent ==
    /\ [](\A p \in Procs : video[p] = "unloaded" => track[p] = "stopped")
    /\ [][ ( /\ last'.op = "caught" /\ last'.path = "AbortError"
              /\ pc[last'.proc] = "play" ) =>
                /\ calls' = << >>
                /\ pc' = [pc EXCEPT ![last'.proc] = "done"]
                /\ nSetups' = nSetups
                /\ UNCHANGED engine
                /\ video[last'.proc] = "unloaded"
                /\ track'[last'.proc] = "stopped"
         ]_vars

\* the play() of a superseded call was rejected with an AbortError while a
\* later call of setup() is under way
C16_Witness ==
    /\ last.op = "caught"
    /\ last.path = "AbortError"
    /\ video[last.proc] = "unloaded"
    /\ calls = << >>
    /\ track[last.proc] = "stopped"
    /\ \E q \in Procs : q > last.proc /\ pc[q] # "new"

(* C17: after every tick that compares, motion-present or not, the         *)
(* retained previous frame is the frame that tick read; and the retained   *)
(* frame changes in no other way than by a tick that read a frame, which   *)
(* stores it, or by a teardown, which drops it.  So the retained frame is  *)
(* always the frame sampled last, and a comparison is between two frames   *)
(* sampled one after the other, never against an older baseline.           *)
C17_PreviousFrameIsLatestSample ==
    /\ []((last.op = "tick" /\ last.path \in {"first", "compare"}) =>
              lastImageDataRef = last.frame)
    /\ [][ /\ (last'.op = "tick" /\ last'.path = "compare") =>
                 lastImageDataRef' = last'.frame
           /\ lastImageDataRef' # lastImageDataRef =>
                 \/ /\ last'.op = "tick"
                    /\ last'.path \in {"first", "compare"}
                    /\ lastImageDataRef' = last'.frame
                 \/ /\ last'.op \in {"enable", "disable"}
                    /\ lastImageDataRef' = NoFrame
         ]_vars

\* a tick compared a frame with a different one, found no motion, and the
\* frame it read is the retained one
C17_Witness ==
    /\ last.op = "tick"
    /\ last.path = "compare"
    /\ ~last.motion
    /\ ~last.same
    /\ lastImageDataRef = last.frame

(* C18: over the whole life of the engine, across teardowns and new        *)
(* calls of setup(), onMotionStart and onMotionEnd alternate, beginning    *)
(* with onMotionStart: onMotionStart is invoked only when the consumer is  *)
(* not in motion (every onMotionStart before it was followed by an         *)
(* onMotionEnd), onMotionEnd only when it is, and every Active period      *)
(* ends with an onMotionEnd, also when it is a teardown that ends it.      *)
C18_StartAndEndAlternate ==
    [][ /\ "onMotionStart" \in Invoked' => ~isMotionActive
        /\ "onMotionEnd" \in Invoked' => isMotionActive
        /\ (isDetectingMotionRef /\ ~isDetectingMotionRef') =>
              "onMotionEnd" \in Invoked'
      ]_vars

(* C19: between events (after any tick, firing of the silence timer,       *)
(* enable() or disable()) the motion state is Active if and only if a      *)
(* silence timer is pending: never Active without a deadline that returns  *)
(* it to Idle, never a pending timer in Idle.                              *)
C19_ActiveIffTimerPending ==
    isDetectingMotionRef <=> timers # {}

\* a teardown has ended an Active period: Idle, and its timer is gone
C19_Witness ==
    /\ last.op = "disable"
    /\ isMotionActive
    /\ ~isDetectingMotionRef
    /\ timers = {}

----------------------------------------------------------------------------
(* The claim about the sensitivity *)

\* two frames of the same dimensions
SameSize(lastF, curF) ==
    lastF # NoFrame /\ lastF.w = curF.w /\ lastF.h = curF.h

\* two frames of the same dimensions that differ by 10 in luminance at 1%
\* of the sampled positions and not at all at the others
TenAtOnePercent(lastF, curF) ==
    /\ SameSize(lastF, curF)
    /\ LET P == SampledPositions(curF.data)
           D == {i \in P : Sum3(lastF.data, i) # Sum3(curF.data, i)}
       IN  /\ 100 * Cardinality(D) = Cardinality(P)
           /\ \A i \in D : Abs(Sum3(lastF.data, i) - Sum3(curF.data, i)) = 3 * 10

\* the sensitivities whose threshold is an integer (50, 45, ..., 5), where
\* a luminance difference can equal the threshold
IntegerThresholds == {s \in EstSensitivities : (s - 1) % 11 = 0}

\* the sensitivities a tick at sensitivity s is compared with: its two
\* neighbours, the least and the greatest, and those of IntegerThresholds
Compared(s) == ({s - 1, s + 1} \cap EstSensitivities) \cup IntegerThresholds

(* C20: detection is monotone in the sensitivity.  For the two frames of   *)
(* equal size a tick compares at sensitivity s, the changed-pixel count at *)
(* a sensitivity s2 >= s is at least the tick's count, and if the tick is  *)
(* motion-present so is the pair at s2 (and, the other way, at s2 <= s     *)
(* the count is at most the tick's, and a pair that is motion-present at   *)
(* s2 is so at s).  Every s in 1..100 is compared with s - 1 and s + 1,    *)
(* which by transitivity is every pair s <= s2 of 1..100, and with 1, 100  *)
(* and the other sensitivities of IntegerThresholds directly.  In          *)
(* particular two frames that differ by 10 in luminance at 1% of the       *)
(* sampled positions are motion-present at sensitivity 100 and not at      *)
(* sensitivity 1.                                                          *)
C20_MonotoneInSensitivity ==
    [][ ( /\ last'.op = "tick" /\ last'.path = "compare"
          /\ SameSize(lastImageDataRef, last'.frame) ) =>
            LET lastF == lastImageDataRef
                curF == last'.frame
                s == sensitivityRef
            IN  /\ \A s2 \in Compared(s) :
                       LET count == ChangedPixels(lastF, curF, s2)
                           motion == MotionPresent(count, curF.w, curF.h)
                       IN  /\ s2 >= s => /\ count >= last'.changed
                                          /\ last'.motion => motion
                           /\ s2 <= s => /\ count <= last'.changed
                                          /\ motion => last'.motion
                /\ TenAtOnePercent(lastF, curF) =>
                       /\ s = 100 => last'.motion
                       /\ s = 1 => ~last'.motion
      ]_vars

\* at sensitivity 100 a tick compared the dark 20 x 20 frame with the one
\* that differs from it by 10 at one of the 100 sampled positions: motion
C20_Witness ==
    /\ last.op = "tick"
    /\ last.path = "compare"
    /\ sensitivityRef = 100
    /\ last.frame = Wide(10, 0)
    /\ last.changed = 1
    /\ last.motion

====
